---- MODULE Spec2Model ----
(***************************************************************************)
(* The per-chat delivery coordinator (MessageHandler.handleSeriesRequest   *)
(* and sendVideosInOrder) together with the disk cache it drives           *)
(* (CacheManager).  Node runs each handler to its next await without       *)
(* interruption, so one action is the code between two awaits.             *)
(***************************************************************************)
EXTENDS Integers, Sequences, FiniteSets, TLC

\* ------------------------------------------------------------------ bounds
MaxMsgs == 2
MaxVideos == 2
MaxClock == 2
MaxAccess == 2
MaxCacheVideos == 1
MaxItemVideos == 3
MaxItemAccess == 4

Chats == {"u1", "u2"}
Texts == {"ab001", "ab002", "zz999"}
Msgs == 1..MaxMsgs
VideoIds == 1..MaxVideos

\* --------------------------------------------------------- series.config.ts
seriesMapping ==
  ("AB001" :> "wbsd06") @@ ("AB002" :> "dfhjuuu") @@ ("AB003" :> "wbsd08")

upperTable ==
  ("ab001" :> "AB001") @@ ("ab002" :> "AB002") @@ ("zz999" :> "ZZ999")

ToUpperCase(s) == IF s \in DOMAIN upperTable THEN upperTable[s] ELSE s

isValidSeriesAlways(seriesCode) == TRUE

isValidSeries(seriesCode) == ToUpperCase(seriesCode) \in DOMAIN seriesMapping

getTelegramGroup(seriesCode) ==
  IF ToUpperCase(seriesCode) \in DOMAIN seriesMapping
  THEN seriesMapping[ToUpperCase(seriesCode)]
  ELSE "null"

\* ------------------------------------------------------------------- state
VARIABLES
  activeRequests,  \* Map<chatId, code>: a function whose domain is the key set
  calls,           \* one frame per handleSeriesRequest invocation
  dirs,            \* series directories under the cache root
  files,           \* cached artifacts: <<code, videoId>> -> size on disk
  metadata,        \* CacheManager.metadata (in memory)
  metadataFile,    \* metadata.json as last written
  temp,            \* files of ./temp: <<videoId, timestamp>> -> size
  now,             \* Date.now()
  last             \* CacheSpec: the CacheManager method called last (the
                   \* handler's calls are recorded in its frame's cacheOps)

vars ==
  <<activeRequests, calls, dirs, files, metadata, metadataFile, temp, now,
    last>>

Put(f, k, v) == [x \in DOMAIN f \cup {k} |-> IF x = k THEN v ELSE f[x]]

Del(f, k) == [x \in DOMAIN f \ {k} |-> f[x]]

EmptyMap == [x \in {} |-> 0]

NoFile == <<0, 0>>

\* A JavaScript object with string keys: the keys in insertion order (the
\* order of Object.entries and for-in) and the value of each key.
ObjEmpty == [keys |-> <<>>, at |-> EmptyMap]

ObjHas(o, k) == k \in DOMAIN o.at

ObjSet(o, k, v) ==
  [keys |-> IF k \in DOMAIN o.at THEN o.keys ELSE Append(o.keys, k),
   at |-> Put(o.at, k, v)]

ObjDelete(o, k) ==
  [keys |-> SelectSeq(o.keys, LAMBDA x : x # k), at |-> Del(o.at, k)]

\* Ascending lists of message ids, as fetchVideosFromGroup sorts them.
RECURSIVE SortedSeq(_)
SortedSeq(S) ==
  IF S = {} THEN <<>>
  ELSE LET lo == CHOOSE x \in S : \A y \in S : x <= y
       IN <<lo>> \o SortedSeq(S \ {lo})

fetchVideosFromGroup == {SortedSeq(S) : S \in SUBSET VideoIds}

\* Size of the artifact the provider serves for a message id.
VideoSize(id) == id

\* ------------------------------------------------------------ CacheManager
CacheState ==
  [dirs |-> dirs, files |-> files, metadata |-> metadata,
   metadataFile |-> metadataFile]

\* JSON.stringify(this.metadata, null, 2): the members of the object in key
\* order, each a key with its entry.
stringify(md) == [k \in 1..Len(md.keys) |-> <<md.keys[k], md.at[md.keys[k]]>>]

\* JSON.parse(data): the object that gets the members of the text one after
\* the other.
RECURSIVE parseFrom(_, _)
parseFrom(text, o) ==
  IF text = <<>> THEN o
  ELSE parseFrom(Tail(text), ObjSet(o, Head(text)[1], Head(text)[2]))

parse(text) == parseFrom(text, ObjEmpty)

saveMetadataKeepsFile(c) == c

\* metadataFile is the index file as JSON.parse reads it.
saveMetadata(c) == [c EXCEPT !.metadataFile = parse(stringify(c.metadata))]

isCached(c, seriesCode, videoId) == <<seriesCode, videoId>> \in DOMAIN c.files

isSeriesCachedByIndex(c, seriesCode, videoIds) ==
  /\ ObjHas(c.metadata, seriesCode)
  /\ \A k \in 1..Len(videoIds) :
       videoIds[k] \in DOMAIN c.metadata.at[seriesCode].videos

isSeriesCachedSome(c, seriesCode, videoIds) ==
  \E k \in 1..Len(videoIds) : isCached(c, seriesCode, videoIds[k])

isSeriesCached(c, seriesCode, videoIds) ==
  \A k \in 1..Len(videoIds) : isCached(c, seriesCode, videoIds[k])

updateAccessTimeWrongField(c, seriesCode, t) ==
  IF ObjHas(c.metadata, seriesCode)
  THEN saveMetadata(
         [c EXCEPT !.metadata.at[seriesCode].createdAt = t,
                   !.metadata.at[seriesCode].accessCount = @ + 1])
  ELSE c

updateAccessTimeNoCount(c, seriesCode, t) ==
  IF ObjHas(c.metadata, seriesCode)
  THEN saveMetadata([c EXCEPT !.metadata.at[seriesCode].lastAccessAt = t])
  ELSE c

updateAccessTime(c, seriesCode, t) ==
  IF ObjHas(c.metadata, seriesCode)
  THEN saveMetadata(
         [c EXCEPT !.metadata.at[seriesCode].lastAccessAt = t,
                   !.metadata.at[seriesCode].accessCount = @ + 1])
  ELSE c

\* Returns the cache after the call; the call hits iff isCached held before.
getCachedVideo(c, seriesCode, videoId, t) ==
  IF isCached(c, seriesCode, videoId)
  THEN updateAccessTime(c, seriesCode, t)
  ELSE c

\* srcSize = 0 stands for a missing source file; ioFail for any other copy
\* error.  The catch block swallows the error and the call returns null.
cacheVideoFails(srcSize, ioFail) == srcSize = 0 \/ ioFail

cacheVideoKeepsSize(c, seriesCode, videoId, srcSize, ioFail, t) ==
  LET made == [c EXCEPT !.dirs = @ \cup {seriesCode}]
  IN IF cacheVideoFails(srcSize, ioFail) THEN made
     ELSE
       LET copied == [made EXCEPT
                        !.files = Put(@, <<seriesCode, videoId>>, srcSize)]
           entry == IF ObjHas(copied.metadata, seriesCode)
                    THEN copied.metadata.at[seriesCode]
                    ELSE [createdAt |-> t, lastAccessAt |-> t,
                          accessCount |-> 0, videos |-> EmptyMap]
           fileSize == IF videoId \in DOMAIN entry.videos
                       THEN entry.videos[videoId].size ELSE srcSize
           entry2 == [entry EXCEPT
                        !.videos = Put(@, videoId,
                                       [size |-> fileSize, cachedAt |-> t]),
                        !.lastAccessAt = t,
                        !.accessCount = @ + 1]
       IN saveMetadata(
            [copied EXCEPT !.metadata = ObjSet(@, seriesCode, entry2)])

cacheVideoIndexFirst(c, seriesCode, videoId, srcSize, ioFail, t) ==
  LET made == [c EXCEPT !.dirs = @ \cup {seriesCode}]
      entry == IF ObjHas(made.metadata, seriesCode)
               THEN made.metadata.at[seriesCode]
               ELSE [createdAt |-> t, lastAccessAt |-> t,
                     accessCount |-> 0, videos |-> EmptyMap]
      entry2 == [entry EXCEPT
                   !.videos = Put(@, videoId,
                                  [size |-> srcSize, cachedAt |-> t]),
                   !.lastAccessAt = t,
                   !.accessCount = @ + 1]
      indexed == [made EXCEPT !.metadata = ObjSet(@, seriesCode, entry2)]
  IN IF cacheVideoFails(srcSize, ioFail) THEN indexed
     ELSE saveMetadata(
            [indexed EXCEPT
               !.files = Put(@, <<seriesCode, videoId>>, srcSize)])

cacheVideoFromScratch(c, seriesCode, videoId, srcSize, ioFail, t) ==
  LET made == [c EXCEPT !.dirs = @ \cup {seriesCode}]
  IN IF cacheVideoFails(srcSize, ioFail) THEN made
     ELSE
       LET copied == [made EXCEPT
                        !.files = Put(@, <<seriesCode, videoId>>, srcSize)]
           entry == IF ObjHas(copied.metadata, seriesCode)
                    THEN copied.metadata.at[seriesCode]
                    ELSE [createdAt |-> t, lastAccessAt |-> t,
                          accessCount |-> 0, videos |-> EmptyMap]
           entry2 == [entry EXCEPT
                        !.videos = Put(@, videoId,
                                       [size |-> srcSize, cachedAt |-> t]),
                        !.lastAccessAt = t,
                        !.accessCount = @ + 1]
       IN saveMetadata(
            [copied EXCEPT !.metadata = ObjSet(ObjEmpty, seriesCode, entry2)])

cacheVideoReplacesItems(c, seriesCode, videoId, srcSize, ioFail, t) ==
  LET made == [c EXCEPT !.dirs = @ \cup {seriesCode}]
  IN IF cacheVideoFails(srcSize, ioFail) THEN made
     ELSE
       LET copied == [made EXCEPT
                        !.files = Put(@, <<seriesCode, videoId>>, srcSize)]
           entry == IF ObjHas(copied.metadata, seriesCode)
                    THEN copied.metadata.at[seriesCode]
                    ELSE [createdAt |-> t, lastAccessAt |-> t,
                          accessCount |-> 0, videos |-> EmptyMap]
           entry2 == [entry EXCEPT
                        !.videos = Put(EmptyMap, videoId,
                                       [size |-> srcSize, cachedAt |-> t]),
                        !.lastAccessAt = t,
                        !.accessCount = @ + 1]
       IN saveMetadata(
            [copied EXCEPT !.metadata = ObjSet(@, seriesCode, entry2)])

cacheVideoResetsCreated(c, seriesCode, videoId, srcSize, ioFail, t) ==
  LET made == [c EXCEPT !.dirs = @ \cup {seriesCode}]
  IN IF cacheVideoFails(srcSize, ioFail) THEN made
     ELSE
       LET copied == [made EXCEPT
                        !.files = Put(@, <<seriesCode, videoId>>, srcSize)]
           entry == IF ObjHas(copied.metadata, seriesCode)
                    THEN copied.metadata.at[seriesCode]
                    ELSE [createdAt |-> t, lastAccessAt |-> t,
                          accessCount |-> 0, videos |-> EmptyMap]
           entry2 == [entry EXCEPT
                        !.videos = Put(@, videoId,
                                       [size |-> srcSize, cachedAt |-> t]),
                        !.createdAt = t,
                        !.lastAccessAt = t,
                        !.accessCount = @ + 1]
       IN saveMetadata(
            [copied EXCEPT !.metadata = ObjSet(@, seriesCode, entry2)])

cacheVideoIndexOnly(c, seriesCode, videoId, srcSize, ioFail, t) ==
  LET made == [c EXCEPT !.dirs = @ \cup {seriesCode}]
  IN IF cacheVideoFails(srcSize, ioFail) THEN made
     ELSE
       LET entry == IF ObjHas(made.metadata, seriesCode)
                    THEN made.metadata.at[seriesCode]
                    ELSE [createdAt |-> t, lastAccessAt |-> t,
                          accessCount |-> 0, videos |-> EmptyMap]
           entry2 == [entry EXCEPT
                        !.videos = Put(@, videoId,
                                       [size |-> srcSize, cachedAt |-> t]),
                        !.lastAccessAt = t,
                        !.accessCount = @ + 1]
       IN saveMetadata(
            [made EXCEPT !.metadata = ObjSet(@, seriesCode, entry2)])

cacheVideo(c, seriesCode, videoId, srcSize, ioFail, t) ==
  LET made == [c EXCEPT !.dirs = @ \cup {seriesCode}]
  IN IF cacheVideoFails(srcSize, ioFail) THEN made
     ELSE
       LET copied == [made EXCEPT
                        !.files = Put(@, <<seriesCode, videoId>>, srcSize)]
           entry == IF ObjHas(copied.metadata, seriesCode)
                    THEN copied.metadata.at[seriesCode]
                    ELSE [createdAt |-> t, lastAccessAt |-> t,
                          accessCount |-> 0, videos |-> EmptyMap]
           entry2 == [entry EXCEPT
                        !.videos = Put(@, videoId,
                                       [size |-> srcSize, cachedAt |-> t]),
                        !.lastAccessAt = t,
                        !.accessCount = @ + 1]
       IN saveMetadata(
            [copied EXCEPT !.metadata = ObjSet(@, seriesCode, entry2)])

\* The configuration of the cache that CacheSpec exercises, in megabytes and
\* clock ticks: new CacheManager(dir, {maxCacheSize: 10 MB, maxAge: 1 tick}).
maxCacheSize == 10

maxAge == 1

\* Sizes, in megabytes, of the source files handed to cacheVideo.
Sizes == {4, 6}

\* The video ids the client of CacheSpec uses.
CacheVideoIds == 1..MaxCacheVideos

Series == DOMAIN seriesMapping

RECURSIVE SumSizes(_, _)
SumSizes(videos, ids) ==
  IF ids = {} THEN 0
  ELSE LET v == CHOOSE x \in ids : TRUE
       IN videos[v].size + SumSizes(videos, ids \ {v})

\* Object.values(data.videos).reduce((sum, v) => sum + (v.size || 0), 0)
SeriesSize(series) == SumSizes(series.videos, DOMAIN series.videos)

RECURSIVE SumSeries(_, _)
SumSeries(md, codes) ==
  IF codes = {} THEN 0
  ELSE LET k == CHOOSE x \in codes : TRUE
       IN SeriesSize(md.at[k]) + SumSeries(md, codes \ {k})

RECURSIVE CountFiles(_, _)
CountFiles(md, codes) ==
  IF codes = {} THEN 0
  ELSE LET k == CHOOSE x \in codes : TRUE
       IN Cardinality(DOMAIN md.at[k].videos) + CountFiles(md, codes \ {k})

getCacheStats(c) ==
  [totalSize |-> SumSeries(c.metadata, DOMAIN c.metadata.at),
   totalFiles |-> CountFiles(c.metadata, DOMAIN c.metadata.at),
   seriesCount |-> Len(c.metadata.keys),
   maxSize |-> maxCacheSize]

removeSeriesClearsAll(c, seriesCode) ==
  saveMetadata([c EXCEPT !.dirs = {}, !.files = EmptyMap,
                         !.metadata = ObjEmpty])

\* rmSync(seriesDir, {recursive, force}) removes the directory with its files;
\* then the index entry is deleted and the index saved.
removeSeries(c, seriesCode) ==
  saveMetadata(
    [c EXCEPT !.dirs = @ \ {seriesCode},
              !.files = [k \in {x \in DOMAIN @ : x[1] # seriesCode} |-> @[k]],
              !.metadata = ObjDelete(@, seriesCode)])

TooOldByAccess(series, t) == t - series.lastAccessAt > maxAge

\* age > this.config.maxAge, with age = now - series.createdAt
TooOld(series, t) == t - series.createdAt > maxAge

\* The for-in loop of cleanOldEntries over the keys ks that are left to visit.
RECURSIVE cleanOldFrom(_, _, _)
cleanOldFrom(c, ks, t) ==
  IF ks = <<>> THEN c
  ELSE LET code == Head(ks)
           c2 == IF ObjHas(c.metadata, code) /\ TooOld(c.metadata.at[code], t)
                 THEN removeSeries(c, code) ELSE c
       IN cleanOldFrom(c2, Tail(ks), t)

cleanOldEntries(c, t) == cleanOldFrom(c, c.metadata.keys, t)

ComesBeforeNewestFirst(a, b) == b.lastAccessAt - a.lastAccessAt <= 0

\* The comparator (a, b) => a.lastAccessAt - b.lastAccessAt leaves a before
\* b when its result is not positive.
ComesBefore(a, b) == a.lastAccessAt - b.lastAccessAt <= 0

\* Array.prototype.sort is stable: x goes behind every element that comes
\* before it or ties with it.
RECURSIVE InsertSorted(_, _)
InsertSorted(x, list) ==
  IF list = <<>> THEN <<x>>
  ELSE IF ComesBefore(Head(list), x)
       THEN <<Head(list)>> \o InsertSorted(x, Tail(list))
       ELSE <<x>> \o list

RECURSIVE SortedFrom(_, _)
SortedFrom(list, done) ==
  IF list = <<>> THEN done
  ELSE SortedFrom(Tail(list), InsertSorted(Head(list), done))

\* Object.entries(this.metadata).map(...).sort(...)
seriesList(c) ==
  SortedFrom([k \in 1..Len(c.metadata.keys) |->
                [code |-> c.metadata.keys[k],
                 lastAccessAt |-> c.metadata.at[c.metadata.keys[k]].lastAccessAt,
                 size |-> SeriesSize(c.metadata.at[c.metadata.keys[k]])]],
             <<>>)

WithinLimit(currentSize) == currentSize <= maxCacheSize

\* currentSize <= this.config.maxCacheSize * 0.8
WithinBuffer(currentSize) == 10 * currentSize <= 8 * maxCacheSize

\* The for-of loop of cleanBySize over the entries that are left to visit.
RECURSIVE trimFrom(_, _, _)
trimFrom(c, list, currentSize) ==
  IF list = <<>> \/ WithinBuffer(currentSize) THEN c
  ELSE trimFrom(removeSeries(c, Head(list).code), Tail(list),
                currentSize - Head(list).size)

cleanBySizeToBuffer(c) ==
  trimFrom(c, seriesList(c), getCacheStats(c).totalSize)

cleanBySize(c) ==
  IF getCacheStats(c).totalSize <= maxCacheSize THEN c
  ELSE trimFrom(c, seriesList(c), getCacheStats(c).totalSize)

cleanupAgeOnly(c, t) == cleanOldEntries(c, t)

cleanupSizeFirst(c, t) == cleanOldEntries(cleanBySize(c), t)

cleanup(c, t) == cleanBySize(cleanOldEntries(c, t))

loadMetadataLastSaved(c, readable) == c.metadataFile

\* loadMetadata: the parsed file, or {} when it is missing or unparseable.
loadMetadata(c, readable) == IF readable THEN c.metadataFile ELSE ObjEmpty

SetCache(c) ==
  /\ dirs' = c.dirs
  /\ files' = c.files
  /\ metadata' = c.metadata
  /\ metadataFile' = c.metadataFile

\* No CacheManager call has been made yet.
NoCall ==
  [op |-> "none", series |-> "", video |-> 0, ids |-> {}, ok |-> FALSE,
   had |-> 0, aged |-> EmptyMap, trimmed |-> EmptyMap]

\* ---------------------------------------------------------- MessageHandler
IdleFrame ==
  [pc |-> "idle", chatId |-> "", code |-> "", videos |-> <<>>, i |-> 0,
   isCached |-> FALSE, cachedPath |-> FALSE, filePath |-> NoFile,
   status |-> "", log |-> <<>>, acquired |-> FALSE, deletes |-> 0,
   cacheOps |-> {}]

Init ==
  /\ activeRequests = EmptyMap
  /\ calls = [m \in Msgs |-> IdleFrame]
  /\ dirs = {}
  /\ files = EmptyMap
  /\ metadata = ObjEmpty
  /\ metadataFile = ObjEmpty
  /\ temp = EmptyMap
  /\ now = 0
  /\ last = NoCall

\* log: the messages the recipient has received from this invocation, in
\* order, a video or its skip notice with the video's id; status: what has
\* happened to the item of the current iteration; acquired: the invocation
\* has executed activeRequests.set; deletes: the number of
\* activeRequests.delete calls it has executed; cacheOps: the CacheManager
\* methods it has called.
Logged(f, kind, n) == [f EXCEPT !.log = Append(@, <<kind, n>>)]

Status(f, st) == [f EXCEPT !.status = st]

Called(f, op) == [f EXCEPT !.cacheOps = @ \cup {op}]

AlreadyProcessingNever(ar, chatId) == FALSE

AlreadyProcessingAny(ar, chatId) == DOMAIN ar # {}

\* this.activeRequests.has(chatId)
AlreadyProcessing(ar, chatId) == chatId \in DOMAIN ar

\* this.activeRequests.set(chatId, code)
MarkActive(ar, chatId, code) == Put(ar, chatId, code)

ReleaseNothing(ar, chatId) == ar

\* this.activeRequests.delete(chatId)
Release(ar, chatId) == Del(ar, chatId)

\* Deletes every regular file of ./temp; the cache directory is skipped.
cleanTempDirectory(tmp) == EmptyMap

NextIndexSame(k) == k

\* Index of the iteration that follows iteration k of the for loop.
NextIndex(k) == k + 1

StartItemSkipsLast(f, k, c, tmp, t) ==
  IF k >= Len(f.videos)
  THEN [f |-> Status([f EXCEPT !.i = k, !.pc = "updateUserRequest"], ""),
        c |-> c, temp |-> cleanTempDirectory(tmp)]
  ELSE
    LET id == f.videos[k]
        g == Called([f EXCEPT !.i = k], "getCachedVideo")
    IN IF isCached(c, f.code, id)
       THEN [f |-> Status([g EXCEPT !.cachedPath = TRUE, !.filePath = NoFile,
                                    !.pc = "sendMessage"], "cached"),
             c |-> getCachedVideo(c, f.code, id, t), temp |-> tmp]
       ELSE [f |-> Status([g EXCEPT !.cachedPath = FALSE, !.filePath = <<id, t>>,
                                    !.pc = "downloadVideo"], "miss"),
             c |-> getCachedVideo(c, f.code, id, t), temp |-> tmp]

\* The synchronous head of loop iteration k of sendVideosInOrder, up to its
\* first await; past the last item the loop ends, the temp directory is
\* cleaned and control is back in handleSeriesRequest at updateUserRequest.
StartItem(f, k, c, tmp, t) ==
  IF k > Len(f.videos)
  THEN [f |-> Status([f EXCEPT !.i = k, !.pc = "updateUserRequest"], ""),
        c |-> c, temp |-> cleanTempDirectory(tmp)]
  ELSE
    LET id == f.videos[k]
        g == Called([f EXCEPT !.i = k], "getCachedVideo")
    IN IF isCached(c, f.code, id)
       THEN [f |-> Status([g EXCEPT !.cachedPath = TRUE, !.filePath = NoFile,
                                    !.pc = "sendMessage"], "cached"),
             c |-> getCachedVideo(c, f.code, id, t), temp |-> tmp]
       ELSE [f |-> Status([g EXCEPT !.cachedPath = FALSE, !.filePath = <<id, t>>,
                                    !.pc = "downloadVideo"], "miss"),
             c |-> getCachedVideo(c, f.code, id, t), temp |-> tmp]

Apply(m, r) ==
  /\ calls' = [calls EXCEPT ![m] = r.f]
  /\ SetCache(r.c)
  /\ temp' = r.temp

\* catch (error) of handleSeriesRequest: the error reply is awaited next.
Catch(m, f) ==
  calls' = [calls EXCEPT ![m] = [f EXCEPT !.pc = "replyError"]]

\* finally of handleSeriesRequest.
Finally(m, f, endpc) ==
  /\ activeRequests' = Release(activeRequests, f.chatId)
  /\ calls' = [calls EXCEPT ![m] = [f EXCEPT !.pc = endpc, !.deletes = @ + 1]]

handleSeriesRequest(m, chatId, seriesCode) ==
  /\ calls[m].pc = "idle"
  /\ \A k \in 1..(m - 1) : calls[k].pc # "idle"
  /\ LET code == ToUpperCase(seriesCode)
         f == [calls[m] EXCEPT !.chatId = chatId, !.code = code]
     IN IF AlreadyProcessing(activeRequests, chatId)
        THEN /\ calls' = [calls EXCEPT ![m] = [f EXCEPT !.pc = "replyBusy"]]
             /\ UNCHANGED activeRequests
        ELSE IF ~isValidSeries(code)
        THEN /\ calls' = [calls EXCEPT ![m] = [f EXCEPT !.pc = "replyNotFound"]]
             /\ UNCHANGED activeRequests
        ELSE /\ activeRequests' = MarkActive(activeRequests, chatId, code)
             /\ calls' = [calls EXCEPT ![m] =
                  [f EXCEPT !.acquired = TRUE,
                            !.pc = IF getTelegramGroup(code) = "null"
                                   THEN "replyError" ELSE "replyFound"]]
  /\ UNCHANGED <<dirs, files, metadata, metadataFile, temp, now, last>>

ReplyBusyInTry(m, ok) ==
  /\ calls[m].pc = "replyBusy"
  /\ IF ok
     THEN Finally(m, Logged(calls[m], "Busy", 0), "returned")
     ELSE Catch(m, calls[m]) /\ UNCHANGED activeRequests
  /\ UNCHANGED <<dirs, files, metadata, metadataFile, temp, now, last>>

\* The "Please wait" reply resumes; the return precedes the try block.
ReplyBusy(m, ok) ==
  /\ calls[m].pc = "replyBusy"
  /\ calls' = [calls EXCEPT ![m] =
       IF ok THEN Logged([calls[m] EXCEPT !.pc = "returned"], "Busy", 0)
       ELSE [calls[m] EXCEPT !.pc = "thrown"]]
  /\ UNCHANGED <<activeRequests, dirs, files, metadata, metadataFile, temp, now, last>>

\* The "series not found" reply resumes; the return precedes the try block.
ReplyNotFound(m, ok) ==
  /\ calls[m].pc = "replyNotFound"
  /\ calls' = [calls EXCEPT ![m] =
       IF ok THEN Logged([calls[m] EXCEPT !.pc = "returned"], "NotFound", 0)
       ELSE [calls[m] EXCEPT !.pc = "thrown"]]
  /\ UNCHANGED <<activeRequests, dirs, files, metadata, metadataFile, temp, now, last>>

ReplyFound(m, ok) ==
  /\ calls[m].pc = "replyFound"
  /\ IF ok
     THEN calls' = [calls EXCEPT ![m] =
            Logged([calls[m] EXCEPT !.pc = "fetchVideos"], "Found", 0)]
     ELSE Catch(m, calls[m])
  /\ UNCHANGED <<activeRequests, dirs, files, metadata, metadataFile, temp, now, last>>

FetchVideosReturnsCacheFirst(m, vs) ==
  /\ calls[m].pc = "fetchVideos"
  /\ calls' = [calls EXCEPT ![m] =
       LET f == Called([calls[m] EXCEPT
                          !.videos = vs,
                          !.isCached =
                             isSeriesCached(CacheState, calls[m].code, vs)],
                       "isSeriesCached")
       IN IF Len(vs) = 0
          THEN Status([f EXCEPT !.pc = "replyEmpty"], "listEmpty")
          ELSE [f EXCEPT !.pc = "replyCount"]]
  /\ UNCHANGED <<activeRequests, dirs, files, metadata, metadataFile, temp, now, last>>

\* fetchVideosFromGroup returns vs; the emptiness test precedes the cache.
FetchVideosReturns(m, vs) ==
  /\ calls[m].pc = "fetchVideos"
  /\ calls' = [calls EXCEPT ![m] =
       IF Len(vs) = 0
       THEN Status([calls[m] EXCEPT !.videos = vs, !.pc = "replyEmpty"],
                   "listEmpty")
       ELSE Called([calls[m] EXCEPT
                      !.videos = vs,
                      !.isCached = isSeriesCached(CacheState, calls[m].code, vs),
                      !.pc = "replyCount"], "isSeriesCached")]
  /\ UNCHANGED <<activeRequests, dirs, files, metadata, metadataFile, temp, now, last>>

FetchVideosThrowsOutsideTry(m) ==
  /\ calls[m].pc = "fetchVideos"
  /\ calls' = [calls EXCEPT ![m] =
       Status([calls[m] EXCEPT !.pc = "thrown"], "listFailed")]
  /\ UNCHANGED <<activeRequests, dirs, files, metadata, metadataFile, temp, now, last>>

\* fetchVideosFromGroup rethrows its error; the catch block takes it.
FetchVideosThrows(m) ==
  /\ calls[m].pc = "fetchVideos"
  /\ Catch(m, Status(calls[m], "listFailed"))
  /\ UNCHANGED <<activeRequests, dirs, files, metadata, metadataFile, temp, now, last>>

\* The empty-list branch deletes the entry and returns from inside the try
\* block, so the finally block deletes it again before the call completes.
ReplyEmpty(m, ok) ==
  /\ calls[m].pc = "replyEmpty"
  /\ IF ok
     THEN /\ activeRequests' =
               Release(Release(activeRequests, calls[m].chatId), calls[m].chatId)
          /\ calls' = [calls EXCEPT ![m] =
               Logged([calls[m] EXCEPT !.pc = "returned", !.deletes = @ + 2],
                      "Empty", 0)]
     ELSE Catch(m, calls[m]) /\ UNCHANGED activeRequests
  /\ UNCHANGED <<dirs, files, metadata, metadataFile, temp, now, last>>

ReplyCount(m, ok) ==
  /\ calls[m].pc = "replyCount"
  /\ IF ok
     THEN Apply(m, StartItem(Logged(calls[m], "Count", 0), 1,
                             CacheState, temp, now))
     ELSE Catch(m, calls[m]) /\ UNCHANGED <<dirs, files, metadata, metadataFile, temp>>
  /\ UNCHANGED <<activeRequests, now, last>>

\* downloadVideo resumes.  outcome: "ok" (buffer written to filePath), "empty"
\* (falsy buffer: nothing is written, the path is returned all the same) or
\* "throw".  After a return the handler copies the file into the cache and
\* loads it with MessageMedia.fromFilePath, which throws on a missing file.
DownloadVideo(m, outcome, ioFail) ==
  /\ calls[m].pc = "downloadVideo"
  /\ LET f == calls[m]
         id == f.videos[f.i]
         tmp == IF outcome = "ok" THEN Put(temp, f.filePath, VideoSize(id))
                ELSE temp
         srcSize == IF f.filePath \in DOMAIN tmp THEN tmp[f.filePath] ELSE 0
         c == cacheVideo(CacheState, f.code, id, srcSize, ioFail, now)
         h == Called(f, "cacheVideo")
         g == IF cacheVideoFails(srcSize, ioFail)
              THEN Status(h, "copyFailed") ELSE Status(h, "copied")
     IN IF outcome = "throw"
        THEN /\ calls' = [calls EXCEPT ![m] =
                  Status([f EXCEPT !.pc = "skipNotice"], "fetchFailed")]
             /\ UNCHANGED <<dirs, files, metadata, metadataFile, temp>>
        ELSE /\ temp' = tmp
             /\ SetCache(c)
             /\ calls' = [calls EXCEPT ![m] =
                  IF srcSize = 0
                  THEN Status([h EXCEPT !.pc = "skipNotice"], "loadFailed")
                  ELSE [g EXCEPT !.pc = "sendMessage"]]
  /\ UNCHANGED <<activeRequests, now, last>>

\* client.sendMessage(chatId, media, {caption}) resumes.
SendMessage(m, ok) ==
  /\ calls[m].pc = "sendMessage"
  /\ LET f == calls[m]
         tmp == IF ~f.cachedPath /\ f.filePath \in DOMAIN temp
                THEN Del(temp, f.filePath) ELSE temp
         g == Logged(f, "Video", f.videos[f.i])
     IN IF ~ok
        THEN /\ calls' = [calls EXCEPT ![m] =
                  Status([f EXCEPT !.pc = "skipNotice"], "deliverFailed")]
             /\ UNCHANGED <<dirs, files, metadata, metadataFile, temp>>
        ELSE IF f.i < Len(f.videos)
        THEN /\ calls' = [calls EXCEPT ![m] = [g EXCEPT !.pc = "sleep"]]
             /\ temp' = tmp
             /\ UNCHANGED <<dirs, files, metadata, metadataFile>>
        ELSE Apply(m, StartItem(g, NextIndex(f.i), CacheState, tmp, now))
  /\ UNCHANGED <<activeRequests, now, last>>

\* sleep(2000) between two sends resumes.
Sleep(m) ==
  /\ calls[m].pc = "sleep"
  /\ Apply(m, StartItem(calls[m], NextIndex(calls[m].i), CacheState, temp, now))
  /\ UNCHANGED <<activeRequests, now, last>>

\* The "Error sending video N. Skipping to next..." message of the per-item
\* catch block resumes; when it throws, the error leaves sendVideosInOrder.
SkipNotice(m, ok) ==
  /\ calls[m].pc = "skipNotice"
  /\ IF ok
     THEN Apply(m, StartItem(Logged(calls[m], "Skip",
                                    calls[m].videos[calls[m].i]),
                             NextIndex(calls[m].i), CacheState, temp, now))
     ELSE Catch(m, calls[m]) /\ UNCHANGED <<dirs, files, metadata, metadataFile, temp>>
  /\ UNCHANGED <<activeRequests, now, last>>

\* databaseManager.updateUserRequest catches its own errors: it never throws.
UpdateUserRequest(m) ==
  /\ calls[m].pc = "updateUserRequest"
  /\ calls' = [calls EXCEPT ![m].pc = "replyDone"]
  /\ UNCHANGED <<activeRequests, dirs, files, metadata, metadataFile, temp, now, last>>

ReplyDone(m, ok) ==
  /\ calls[m].pc = "replyDone"
  /\ IF ok
     THEN Finally(m, Logged(calls[m], "Done", 0), "returned")
     ELSE Catch(m, calls[m]) /\ UNCHANGED activeRequests
  /\ UNCHANGED <<dirs, files, metadata, metadataFile, temp, now, last>>

ReplyErrorNoFinally(m, ok) ==
  /\ calls[m].pc = "replyError"
  /\ IF ok
     THEN Finally(m, Logged(calls[m], "Error", 0), "returned")
     ELSE /\ calls' = [calls EXCEPT ![m].pc = "thrown"]
          /\ UNCHANGED activeRequests
  /\ UNCHANGED <<dirs, files, metadata, metadataFile, temp, now, last>>

\* The error reply of the catch block resumes; the finally block runs whether
\* it returned or threw.
ReplyError(m, ok) ==
  /\ calls[m].pc = "replyError"
  /\ IF ok
     THEN Finally(m, Logged(calls[m], "Error", 0), "returned")
     ELSE Finally(m, calls[m], "thrown")
  /\ UNCHANGED <<dirs, files, metadata, metadataFile, temp, now, last>>

\* One resumption of invocation m: an awaited external call returns or throws.
Step(m) ==
  \/ \E ok \in BOOLEAN : ReplyBusy(m, ok)
  \/ \E ok \in BOOLEAN : ReplyNotFound(m, ok)
  \/ \E ok \in BOOLEAN : ReplyFound(m, ok)
  \/ \E vs \in fetchVideosFromGroup : FetchVideosReturns(m, vs)
  \/ FetchVideosThrows(m)
  \/ \E ok \in BOOLEAN : ReplyEmpty(m, ok)
  \/ \E ok \in BOOLEAN : ReplyCount(m, ok)
  \/ \E o \in {"ok", "empty", "throw"}, io \in BOOLEAN : DownloadVideo(m, o, io)
  \/ \E ok \in BOOLEAN : SendMessage(m, ok)
  \/ Sleep(m)
  \/ \E ok \in BOOLEAN : SkipNotice(m, ok)
  \/ UpdateUserRequest(m)
  \/ \E ok \in BOOLEAN : ReplyDone(m, ok)
  \/ \E ok \in BOOLEAN : ReplyError(m, ok)

Next ==
  \/ \E m \in Msgs, chatId \in Chats, text \in Texts :
       handleSeriesRequest(m, chatId, text)
  \/ \E m \in Msgs : Step(m)

Spec == Init /\ [][Next]_vars

\* The specification for progress: every awaited external call eventually
\* returns or throws.  Requests name one mapped and one unmapped code; the
\* lock discipline reads a code only through the mapping test.
FairTexts == {"ab001", "zz999"}

\* Both requests come from one chat, so the second can meet the entry of the
\* first; invocations of different chats share no awaited call.
FairChats == {"u1"}

FairNext ==
  \/ \E m \in Msgs, chatId \in FairChats, text \in FairTexts :
       handleSeriesRequest(m, chatId, text)
  \/ \E m \in Msgs : Step(m)

FairSpec == Init /\ [][FairNext]_vars /\ \A m \in Msgs : WF_vars(Step(m))

\* ---------------------------------------------------------------- CacheSpec
\* A CacheManager driven directly by a client: every public method, the
\* clock, and the construction of a new instance over the same directory.
Call(op, seriesCode, videoId, ok) ==
  [op |-> op, series |-> seriesCode, video |-> videoId, ids |-> {},
   ok |-> ok, had |-> 0, aged |-> EmptyMap, trimmed |-> EmptyMap]

\* The entries of index md whose keys are in codes.
Entries(md, codes) == [k \in codes |-> md.at[k]]

\* The calls that raise accessCount stop at the cap.
Touches(seriesCode, cap) ==
  ObjHas(metadata, seriesCode) => metadata.at[seriesCode].accessCount < cap

\* had: the size of the item's file before the call, 0 without a file.
CacheVideo(seriesCode, videoId, srcSize, ioFail) ==
  /\ SetCache(cacheVideo(CacheState, seriesCode, videoId, srcSize, ioFail, now))
  /\ last' = [Call("cacheVideo", seriesCode, videoId,
                   ~cacheVideoFails(srcSize, ioFail))
               EXCEPT !.had = IF isCached(CacheState, seriesCode, videoId)
                              THEN files[<<seriesCode, videoId>>] ELSE 0]
  /\ UNCHANGED <<activeRequests, calls, temp, now>>

GetCachedVideo(seriesCode, videoId) ==
  /\ SetCache(getCachedVideo(CacheState, seriesCode, videoId, now))
  /\ last' = Call("getCachedVideo", seriesCode, videoId,
                  isCached(CacheState, seriesCode, videoId))
  /\ UNCHANGED <<activeRequests, calls, temp, now>>

\* ok: the collection had a directory or an index entry before the call.
RemoveSeries(seriesCode) ==
  /\ SetCache(removeSeries(CacheState, seriesCode))
  /\ last' = Call("removeSeries", seriesCode, 0,
                  seriesCode \in dirs \/ ObjHas(metadata, seriesCode))
  /\ UNCHANGED <<activeRequests, calls, temp, now>>

\* aged, trimmed: the entries that the age pass and the size pass removed.
Cleanup ==
  /\ SetCache(cleanup(CacheState, now))
  /\ LET afterAge == cleanOldEntries(CacheState, now).metadata
         afterAll == cleanup(CacheState, now).metadata
     IN last' = [Call("cleanup", "", 0, TRUE) EXCEPT
                   !.aged = Entries(metadata, DOMAIN metadata.at
                                                \ DOMAIN afterAge.at),
                   !.trimmed = Entries(metadata,
                                       (DOMAIN metadata.at
                                          \cap DOMAIN afterAge.at)
                                         \ DOMAIN afterAll.at)]
  /\ UNCHANGED <<activeRequests, calls, temp, now>>

\* new CacheManager(dir, config) over the directory as it is: the index is
\* what loadMetadata reads; a missing or unparseable file reads as {}.
Restart(readable) ==
  /\ metadata' = loadMetadata(CacheState, readable)
  /\ metadataFile' = loadMetadata(CacheState, readable)
  /\ last' = Call("constructor", "", 0, readable)
  /\ UNCHANGED <<activeRequests, calls, dirs, files, temp, now>>

Tick ==
  /\ now < MaxClock
  /\ now' = now + 1
  /\ last' = Call("tick", "", 0, TRUE)
  /\ UNCHANGED <<activeRequests, calls, dirs, files, metadata, metadataFile, temp>>

CacheNext ==
  \/ \E sc \in Series, v \in CacheVideoIds, sz \in Sizes, io \in BOOLEAN :
       Touches(sc, MaxAccess) /\ CacheVideo(sc, v, sz, io)
  \/ \E sc \in Series, v \in CacheVideoIds :
       Touches(sc, MaxAccess) /\ GetCachedVideo(sc, v)
  \/ \E sc \in Series : RemoveSeries(sc)
  \/ Cleanup
  \/ \E r \in BOOLEAN : Restart(r)
  \/ Tick

CacheSpec == Init /\ [][CacheNext]_vars

\* ----------------------------------------------------------------- ItemSpec
\* The same client working on one collection of several videos.
ItemSeries == "AB001"

ItemVideoIds == 1..MaxItemVideos

IsSeriesCached(seriesCode, ids) ==
  /\ last' = [Call("isSeriesCached", seriesCode, 0,
                   isSeriesCached(CacheState, seriesCode, SortedSeq(ids)))
               EXCEPT !.ids = ids]
  /\ UNCHANGED <<activeRequests, calls, dirs, files, metadata, metadataFile,
                 temp, now>>

ItemNext ==
  \/ \E v \in ItemVideoIds, sz \in Sizes, io \in BOOLEAN :
       Touches(ItemSeries, MaxItemAccess) /\ CacheVideo(ItemSeries, v, sz, io)
  \/ \E v \in ItemVideoIds :
       Touches(ItemSeries, MaxItemAccess) /\ GetCachedVideo(ItemSeries, v)
  \/ \E ids \in SUBSET ItemVideoIds \ {{}} : IsSeriesCached(ItemSeries, ids)
  \/ RemoveSeries(ItemSeries)
  \/ Cleanup
  \/ \E r \in BOOLEAN : Restart(r)
  \/ Tick

ItemSpec == Init /\ [][ItemNext]_vars

\* ---------------------------------------------------------------- CrashSpec
\* The lengths a destination file can have when the process stops inside
\* fs.copyFileSync: created and still empty, or holding a part of the source.
Partial(srcSize) == {0, srcSize \div 2}

\* The process is killed inside the copyFileSync of cacheVideo and a new
\* instance is constructed over the directory: the collection's directory
\* has been made, the destination holds part bytes, the statements after the
\* copy have not run, and the index is what the file holds.
CacheVideoInterrupted(seriesCode, videoId, srcSize, part) ==
  /\ dirs' = dirs \cup {seriesCode}
  /\ files' = Put(files, <<seriesCode, videoId>>, part)
  /\ metadata' = loadMetadata(CacheState, TRUE)
  /\ metadataFile' = loadMetadata(CacheState, TRUE)
  /\ last' = [Call("interrupted", seriesCode, videoId, FALSE)
               EXCEPT !.had = IF isCached(CacheState, seriesCode, videoId)
                              THEN files[<<seriesCode, videoId>>] ELSE 0]
  /\ UNCHANGED <<activeRequests, calls, temp, now>>

\* The client of CacheSpec working on one collection, with interruptions.
CrashNext ==
  \/ \E v \in CacheVideoIds, sz \in Sizes, io \in BOOLEAN :
       Touches(ItemSeries, MaxAccess) /\ CacheVideo(ItemSeries, v, sz, io)
  \/ \E v \in CacheVideoIds, sz \in Sizes :
       \E part \in Partial(sz) :
         CacheVideoInterrupted(ItemSeries, v, sz, part)
  \/ \E v \in CacheVideoIds :
       Touches(ItemSeries, MaxAccess) /\ GetCachedVideo(ItemSeries, v)
  \/ \E ids \in SUBSET CacheVideoIds \ {{}} : IsSeriesCached(ItemSeries, ids)
  \/ RemoveSeries(ItemSeries)
  \/ Cleanup
  \/ \E r \in BOOLEAN : Restart(r)
  \/ Tick

CrashSpec == Init /\ [][CrashNext]_vars

\* ------------------------------------------------------------------ claims
Finished(m) == calls[m].pc \in {"returned", "thrown"}

\* Past the activeRequests.set step and not yet completed.
InFlight(m) == calls[m].pc \notin {"idle", "replyBusy", "replyNotFound",
                                   "returned", "thrown"}

Arrives(m) == calls[m].pc = "idle" /\ calls'[m].pc # "idle"

OthersUnchanged(m) == \A k \in Msgs \ {m} : calls'[k] = calls[k]

ItemLog(m) == SelectSeq(calls[m].log, LAMBDA e : e[1] \in {"Video", "Skip"})

Ids(es) == [k \in 1..Len(es) |-> es[k][2]]

\* C1: for every chat, at most one invocation of handleSeriesRequest is past
\* the activeRequests.set step and not yet completed.
C1_AtMostOneInFlight ==
  \A m1, m2 \in Msgs :
    (m1 # m2 /\ InFlight(m1) /\ InFlight(m2))
      => calls[m1].chatId # calls[m2].chatId

C1_Witness ==
  \E m1, m2 \in Msgs :
    /\ m1 # m2
    /\ calls[m1].chatId = calls[m2].chatId
    /\ InFlight(m1)
    /\ calls[m2].pc = "replyBusy"

\* C2: a request arriving while its chat has a lock entry goes to the Busy
\* reply and nothing else changes: the entry, the cache and every other
\* invocation stay as they were, and the rejected invocation only ever
\* completes, with the Busy reply as its whole output when the reply is sent.
C2_BusyRequestChangesNothing ==
  [][\A m \in Msgs :
       /\ (Arrives(m) /\ calls'[m].chatId \in DOMAIN activeRequests)
            => /\ calls'[m].pc = "replyBusy"
               /\ ~calls'[m].acquired
               /\ UNCHANGED <<activeRequests, dirs, files, metadata,
                              metadataFile, temp>>
               /\ OthersUnchanged(m)
       /\ (calls[m].pc = "replyBusy" /\ calls'[m] # calls[m])
            => /\ calls'[m].pc \in {"returned", "thrown"}
               /\ calls'[m].pc = "returned"
                    => calls'[m].log = << <<"Busy", 0>> >>
               /\ ~calls'[m].acquired
               /\ UNCHANGED <<activeRequests, dirs, files, metadata,
                              metadataFile, temp>>
               /\ OthersUnchanged(m)]_vars

C2_Witness ==
  \E m, k \in Msgs :
    /\ calls[m].pc = "returned"
    /\ calls[m].log = << <<"Busy", 0>> >>
    /\ calls[m].chatId \in DOMAIN activeRequests
    /\ activeRequests[calls[m].chatId] = calls[m].code
    /\ InFlight(k)
    /\ calls[k].chatId = calls[m].chatId

\* C3: under FairSpec (every awaited call returns or throws) a chat that has
\* a lock entry eventually has none.
C3_BusyLeadsToIdle ==
  \A c \in Chats :
    (c \in DOMAIN activeRequests) ~> (c \notin DOMAIN activeRequests)

C3_Witness ==
  \E m \in Msgs :
    /\ calls[m].pc = "thrown"
    /\ calls[m].acquired
    /\ calls[m].chatId \notin DOMAIN activeRequests

\* C4: a completed invocation that acquired the lock has executed
\* activeRequests.delete exactly once.
C4_ReleasedExactlyOnce ==
  \A m \in Msgs :
    (Finished(m) /\ calls[m].acquired) => calls[m].deletes = 1

\* C5: a chat has a lock entry exactly when one of its invocations is in
\* flight, and the entry's value is that invocation's collection.
C5_LockMatchesInFlight ==
  \A c \in Chats :
    /\ c \in DOMAIN activeRequests
         => \E m \in Msgs : InFlight(m) /\ calls[m].chatId = c
    /\ \A m \in Msgs :
         (InFlight(m) /\ calls[m].chatId = c)
           => (c \in DOMAIN activeRequests
               /\ activeRequests[c] = calls[m].code)

C5_Witness ==
  \E m \in Msgs :
    /\ calls[m].pc = "sendMessage"
    /\ calls[m].code = "AB002"
    /\ activeRequests[calls[m].chatId] = "AB002"

\* C6: a request for a mapped collection from a chat without a lock entry is
\* accepted whatever the other chats' entries are: it sets its own entry and
\* leaves theirs alone.
C6_OtherRecipientAccepted ==
  [][\A m \in Msgs :
       (/\ Arrives(m)
        /\ calls'[m].chatId \notin DOMAIN activeRequests
        /\ calls'[m].code \in DOMAIN seriesMapping)
         => /\ calls'[m].pc = "replyFound"
            /\ activeRequests' =
                 Put(activeRequests, calls'[m].chatId, calls'[m].code)]_vars

C6_Witness ==
  /\ DOMAIN activeRequests = Chats
  /\ activeRequests["u1"] = activeRequests["u2"]

\* C7: the videos and skip notices an invocation has sent are, in order, a
\* prefix of the provider's list, and the item being fetched or sent is the
\* one right after that prefix.
C7_DeliveredInProviderOrder ==
  \A m \in Msgs :
    LET f == calls[m]
        sent == Ids(ItemLog(m))
    IN /\ Len(sent) <= Len(f.videos)
       /\ sent = SubSeq(f.videos, 1, Len(sent))
       /\ f.pc \in {"downloadVideo", "sendMessage", "skipNotice"}
            => f.i = Len(sent) + 1
       /\ f.pc = "sleep" => (f.i = Len(sent) /\ f.i < Len(f.videos))

C7_Witness ==
  \E m \in Msgs :
    /\ calls[m].pc = "returned"
    /\ SelectSeq(calls[m].log, LAMBDA e : e[1] = "Video")
         = << <<"Video", 1>>, <<"Video", 2>> >>

\* C8: an invocation never completes with the delivery of an item other than
\* the last one as its last item event, i.e. a failed delivery is followed by
\* the attempts for the remaining items.
C8_FailedDeliveryNeverAborts ==
  \A m \in Msgs :
    (Finished(m) /\ calls[m].status = "deliverFailed")
      => calls[m].i = Len(calls[m].videos)

\* C9: an item whose fetch or whose copy into the cache failed is not
\* delivered.
C9_FailedItemNotDelivered ==
  \A m \in Msgs :
    calls[m].status \in {"copyFailed", "fetchFailed"}
      => \A k \in 1..Len(calls[m].log) :
           calls[m].log[k] # <<"Video", calls[m].videos[calls[m].i]>>

\* C10 as stated: a request for an unmapped collection gets the 'series not
\* found' reply and never acquires the lock.
C10_UnknownSeriesGetsNotFound ==
  \A m \in Msgs :
    (calls[m].pc # "idle" /\ calls[m].code \notin DOMAIN seriesMapping)
      => /\ ~calls[m].acquired
         /\ calls[m].pc \in {"replyNotFound", "returned", "thrown"}
         /\ calls[m].pc = "returned" => calls[m].log = << <<"NotFound", 0>> >>

\* C10 amended: a request for an unmapped collection goes to the 'series not
\* found' reply when its chat has no lock entry and to the Busy reply when it
\* has one; either way no entry is created, the cache is untouched, and the
\* invocation only ever completes.
C10_UnknownSeriesRejected ==
  [][\A m \in Msgs :
       /\ (Arrives(m) /\ calls'[m].code \notin DOMAIN seriesMapping)
            => /\ calls'[m].pc =
                    IF calls'[m].chatId \in DOMAIN activeRequests
                    THEN "replyBusy" ELSE "replyNotFound"
               /\ ~calls'[m].acquired
               /\ UNCHANGED <<activeRequests, dirs, files, metadata,
                              metadataFile, temp>>
       /\ (calls[m].pc = "replyNotFound" /\ calls'[m] # calls[m])
            => /\ calls'[m].pc \in {"returned", "thrown"}
               /\ calls'[m].pc = "returned"
                    => calls'[m].log = << <<"NotFound", 0>> >>
               /\ ~calls'[m].acquired
               /\ UNCHANGED <<activeRequests, dirs, files, metadata,
                              metadataFile, temp>>]_vars

C10_Witness ==
  \E m \in Msgs :
    /\ calls[m].pc = "returned"
    /\ calls[m].code \notin DOMAIN seriesMapping
    /\ calls[m].log = << <<"NotFound", 0>> >>

\* The chat of a completed invocation m has no entry left from m: an entry for
\* it belongs to another invocation in flight.
LockGone(m) ==
  calls[m].chatId \in DOMAIN activeRequests
    => \E k \in Msgs \ {m} : InFlight(k) /\ calls[k].chatId = calls[m].chatId

\* C11: when the provider returns an empty list the invocation calls no
\* CacheManager method, sends nothing but the empty-collection reply after
\* the 'found' reply (the generic error reply takes its place when the empty
\* reply itself throws), and completes with its lock entry deleted.
C11_EmptyListSkipsCache ==
  \A m \in Msgs :
    calls[m].status = "listEmpty"
      => /\ calls[m].cacheOps = {}
         /\ calls[m].pc \in {"replyEmpty", "replyError", "returned", "thrown"}
         /\ calls[m].pc = "replyEmpty" => calls[m].log = << <<"Found", 0>> >>
         /\ calls[m].pc = "returned"
              => calls[m].log \in { << <<"Found", 0>>, <<"Empty", 0>> >>,
                                    << <<"Found", 0>>, <<"Error", 0>> >> }
         /\ Finished(m) => (calls[m].deletes >= 1 /\ LockGone(m))

C11_Witness ==
  \E m \in Msgs :
    /\ calls[m].status = "listEmpty"
    /\ calls[m].pc = "returned"
    /\ calls[m].log = << <<"Found", 0>>, <<"Empty", 0>> >>
    /\ calls[m].chatId \notin DOMAIN activeRequests
    /\ dirs # {}

\* C12: when fetchVideosFromGroup throws, the invocation delivers and caches
\* nothing, calls no CacheManager method, sends the generic error reply as its
\* only message after the 'found' reply, and completes with its lock entry
\* deleted exactly once.
C12_ListFailureAborts ==
  \A m \in Msgs :
    calls[m].status = "listFailed"
      => /\ calls[m].cacheOps = {}
         /\ calls[m].videos = <<>>
         /\ calls[m].pc \in {"replyError", "returned", "thrown"}
         /\ calls[m].pc = "replyError" => calls[m].log = << <<"Found", 0>> >>
         /\ calls[m].pc = "thrown" => calls[m].log = << <<"Found", 0>> >>
         /\ calls[m].pc = "returned"
              => calls[m].log = << <<"Found", 0>>, <<"Error", 0>> >>
         /\ Finished(m) => (calls[m].deletes = 1 /\ LockGone(m))

C12_Witness ==
  \E m \in Msgs :
    /\ calls[m].status = "listFailed"
    /\ calls[m].pc = "returned"
    /\ calls[m].log = << <<"Found", 0>>, <<"Error", 0>> >>
    /\ calls[m].chatId \notin DOMAIN activeRequests

\* ------------------------------------------------- claims about the cache
SortedIds == <<"AB001", "AB002", "AB003">>

TotalOf(md) == SumSeries(md, DOMAIN md.at)

Cleans == last'.op = "cleanup"

\* The collections of the index that are too old when cleanup starts, and
\* the others, which are what the size pass starts from.
Stale == {sc \in DOMAIN metadata.at : now - metadata.at[sc].createdAt > maxAge}

Fresh == DOMAIN metadata.at \ Stale

Kept == DOMAIN metadata'.at

EvictedForSize == Fresh \ Kept

OnDisk(fs, sc) == \E k \in DOMAIN fs : k[1] = sc

\* C13 as stated: a successful cacheVideo leaves what an eviction pass
\* leaves: nothing too old, a total within maxCacheSize; and inserting
\* AB001, AB002, AB003 of 4 MB each in that order, touching none, ends with
\* AB001 removed and exactly AB002 and AB003 cached.
C13_PutItemRunsEviction ==
  [][(last'.op = "cacheVideo" /\ last'.ok)
       => /\ TotalOf(metadata') <= maxCacheSize
          /\ \A sc \in Kept : now - metadata'.at[sc].createdAt <= maxAge
          /\ (/\ metadata.keys = <<"AB001", "AB002">>
              /\ \A sc \in {"AB001", "AB002"} :
                   /\ SeriesSize(metadata.at[sc]) = 4
                   /\ metadata.at[sc].accessCount = 1
              /\ last'.series = "AB003"
              /\ files'[<<"AB003", last'.video>>] = 4)
               => /\ Kept = {"AB002", "AB003"}
                  /\ ~OnDisk(files', "AB001")
                  /\ OnDisk(files', "AB002")]_vars

\* C14: a cleanup leaves no collection that was too old by its creation
\* time when it started, in the index, in the saved index or on disk,
\* whatever the total size and the last access.
C14_StaleGoneAfterCleanup ==
  [][Cleans
       => \A sc \in Stale :
            /\ sc \notin DOMAIN metadata'.at
            /\ sc \notin DOMAIN metadataFile'.at
            /\ sc \notin dirs'
            /\ ~OnDisk(files', sc)]_vars

C14_Witness ==
  /\ last.op = "cleanup"
  /\ last.trimmed = EmptyMap
  /\ \E sc \in DOMAIN last.aged :
       /\ last.aged[sc].lastAccessAt = now
       /\ sc \notin DOMAIN metadata.at
       /\ sc \notin dirs
       /\ TotalOf(metadata) + SeriesSize(last.aged[sc]) <= maxCacheSize
  /\ metadata.keys # <<>>

\* C15: when the collections that are not too old total more than
\* maxCacheSize, the size pass ends with a total of at most 80% of
\* maxCacheSize, removes only collections accessed no later than every one it
\* keeps, and had not reached the 80% mark before its last removal.
C15_TrimsToBuffer ==
  [][(Cleans /\ SumSeries(metadata, Fresh) > maxCacheSize)
       => /\ 10 * TotalOf(metadata') <= 8 * maxCacheSize
          /\ EvictedForSize # {}
          /\ \A e \in EvictedForSize, k \in Kept :
               metadata.at[e].lastAccessAt <= metadata.at[k].lastAccessAt
          /\ \E e \in EvictedForSize :
               /\ \A e2 \in EvictedForSize :
                    metadata.at[e2].lastAccessAt <= metadata.at[e].lastAccessAt
               /\ 10 * (TotalOf(metadata') + SeriesSize(metadata.at[e]))
                    > 8 * maxCacheSize]_vars

C15_Witness ==
  /\ last.op = "cleanup"
  /\ Cardinality(DOMAIN last.trimmed) = 2
  /\ metadata.keys # <<>>
  /\ 10 * TotalOf(metadata) <= 8 * maxCacheSize

\* C16: after a cleanup the total size that getCacheStats reports is at most
\* maxCacheSize, from every state the cache can be brought to.
C16_WithinLimitAfterCleanup ==
  [][Cleans => getCacheStats(CacheState)'.totalSize <= maxCacheSize]_vars

C16_Witness ==
  /\ last.op = "cleanup"
  /\ last.aged = EmptyMap
  /\ last.trimmed # EmptyMap
  /\ TotalOf(metadata) > 0
  /\ TotalOf(metadata) + TotalOf([at |-> last.trimmed]) > maxCacheSize

\* C17: no collection that a cleanup removed for size was accessed later
\* than a collection the cleanup kept.
C17_EvictionFollowsRecency ==
  [][Cleans
       => \A e \in EvictedForSize, k \in Kept :
            ~(metadata.at[e].lastAccessAt > metadata.at[k].lastAccessAt)]_vars

C17_Witness ==
  /\ last.op = "cleanup"
  /\ \E e \in DOMAIN last.trimmed, k \in DOMAIN metadata.at :
       /\ last.trimmed[e].lastAccessAt < metadata.at[k].lastAccessAt
       /\ last.trimmed[e].accessCount > metadata.at[k].accessCount

\* Position of a collection id in the ascending order of the ids.
IdRank(sc) == CHOOSE k \in 1..Len(SortedIds) : SortedIds[k] = sc

\* C18 as stated: among collections with equal lastAccessAt the size pass
\* removes the smaller collection id first, so a removed collection never
\* ties with a kept collection of a smaller id.
C18_TiesBrokenById ==
  [][Cleans
       => \A e \in EvictedForSize, k \in Kept :
            metadata.at[e].lastAccessAt = metadata.at[k].lastAccessAt
              => IdRank(e) < IdRank(k)]_vars

\* C19: when the collections that are not too old total at most
\* maxCacheSize, a cleanup removes none of them, whatever the too old ones
\* add to the total.
C19_AgePassBeforeSizePass ==
  [][(Cleans /\ SumSeries(metadata, Fresh) <= maxCacheSize)
       => Fresh \subseteq Kept]_vars

C19_Witness ==
  /\ last.op = "cleanup"
  /\ last.aged # EmptyMap
  /\ last.trimmed = EmptyMap
  /\ metadata.keys # <<>>
  /\ TotalOf(metadata) + TotalOf([at |-> last.aged]) > maxCacheSize
  /\ \E a \in DOMAIN last.aged, k \in DOMAIN metadata.at :
       last.aged[a].lastAccessAt > metadata.at[k].lastAccessAt

\* C20 as stated: a getCachedVideo that returns a path leaves the collection
\* with an index entry whose accessCount is at least 1 and above its value
\* before the call and whose lastAccessAt is not below its value before the
\* call.
C20_HitCountsAccess ==
  [][(last'.op = "getCachedVideo" /\ last'.ok)
       => /\ last'.series \in DOMAIN metadata'.at
          /\ metadata'.at[last'.series].accessCount >= 1
          /\ last'.series \in DOMAIN metadata.at
               => /\ metadata'.at[last'.series].accessCount
                       > metadata.at[last'.series].accessCount
                  /\ metadata'.at[last'.series].lastAccessAt
                       >= metadata.at[last'.series].lastAccessAt]_vars

\* C21: isSeriesCached answers true exactly when every id it is asked about
\* has its file in the collection's directory, which is also exactly when
\* getCachedVideo returns a path for an id; so it is false for {1, 2, 3} with
\* only 1 and 2 cached and true with 3 cached as well.
C21_SeriesCachedIffEveryItem ==
  [][/\ last'.op = "isSeriesCached"
          => (last'.ok <=> \A id \in last'.ids :
                            <<last'.series, id>> \in DOMAIN files)
     /\ last'.op = "getCachedVideo"
          => (last'.ok <=> <<last'.series, last'.video>> \in DOMAIN files)
     /\ (/\ last'.op = "isSeriesCached"
         /\ last'.ids = {1, 2, 3}
         /\ {k[2] : k \in DOMAIN files} = {1, 2})
          => ~last'.ok]_vars

C21_Witness ==
  /\ last.op = "isSeriesCached"
  /\ last.ids = {1, 2, 3}
  /\ last.ok
  /\ ObjHas(metadata, ItemSeries)
  /\ DOMAIN metadata.at[ItemSeries].videos = {1, 2, 3}
  /\ metadata.at[ItemSeries].videos[3].cachedAt
       > metadata.at[ItemSeries].videos[2].cachedAt

\* The files of the items that the index lists for collection sc are on disk.
ListedOnDisk(sc) ==
  ObjHas(metadata, sc)
    => \A v \in DOMAIN metadata.at[sc].videos : <<sc, v>> \in DOMAIN files

\* C22 as stated: in every state that cacheVideo, getCachedVideo,
\* removeSeries, cleanup and the construction of a new instance can reach, a
\* collection has an index entry if and only if its directory exists and
\* holds the file of every item the entry lists.
C22_EntryIffDirectory ==
  \A sc \in Series :
    ObjHas(metadata, sc) <=> (sc \in dirs /\ ListedOnDisk(sc))

\* The items that the index lists, as <<seriesCode, videoId>>.
Indexed ==
  UNION {{<<sc, v>> : v \in DOMAIN metadata.at[sc].videos} :
           sc \in DOMAIN metadata.at}

\* The sum of the sizes that the files of items have on disk.
RECURSIVE DiskSize(_)
DiskSize(items) ==
  IF items = {} THEN 0
  ELSE LET x == CHOOSE y \in items : TRUE
       IN files[x] + DiskSize(items \ {x})

C24_FailedCopyKeepsIndex ==
  [][(last'.op = "cacheVideo" /\ ~last'.ok)
       => /\ metadata' = metadata
          /\ metadataFile' = metadataFile]_vars

C24_Witness ==
  /\ last.op = "cacheVideo"
  /\ ~last.ok
  /\ last.had # 0
  /\ ObjHas(metadata, last.series)
  /\ metadata.at[last.series].lastAccessAt < now

\* C25: a new instance that cannot read the index file starts with the
\* empty index, and the calls that follow work on it: a getCachedVideo that
\* finds a file of a collection without entry returns it and leaves the
\* index alone, a successful cacheVideo into such a collection starts a new
\* entry with that item, and a cleanup of the empty index removes nothing.
C25_UnreadableIndexStartsEmpty ==
  [][/\ (last'.op = "constructor" /\ ~last'.ok)
          => /\ metadata' = ObjEmpty
             /\ getCacheStats(CacheState').totalSize = 0
     /\ (last'.op = "getCachedVideo" /\ last'.ok
           /\ ~ObjHas(metadata, last'.series))
          => metadata' = metadata
     /\ (last'.op = "cacheVideo" /\ last'.ok
           /\ ~ObjHas(metadata, last'.series))
          => /\ ObjHas(metadata', last'.series)
             /\ DOMAIN metadata'.at[last'.series].videos = {last'.video}
     /\ (last'.op = "cleanup" /\ metadata = ObjEmpty)
          => /\ metadata' = ObjEmpty
             /\ files' = files]_vars

C25_Witness ==
  /\ last.op = "getCachedVideo"
  /\ last.ok
  /\ metadata = ObjEmpty
  /\ metadataFile = ObjEmpty
  /\ DOMAIN files # {}

\* Index md lists the item that invocation m is working on.
Holds(md, m) ==
  /\ ObjHas(md, calls[m].code)
  /\ calls[m].videos[calls[m].i] \in DOMAIN md.at[calls[m].code].videos

\* Every collection and item that index md lists is listed by index nd.
Within(md, nd) ==
  \A sc \in DOMAIN md.at :
    /\ sc \in DOMAIN nd.at
    /\ DOMAIN md.at[sc].videos \subseteq DOMAIN nd.at[sc].videos

\* C26: whatever steps of other invocations come in between, no step of the
\* handler drops a collection or an item from the index, in memory or in the
\* file, and an invocation whose cacheVideo has succeeded for its current
\* item finds that item in both until it moves on.
C26_NoLostIndexUpdate ==
  [][/\ Within(metadata, metadata')
     /\ Within(metadataFile, metadataFile')
     /\ \A m \in Msgs :
          calls'[m].status = "copied"
            => Holds(metadata, m)' /\ Holds(metadataFile, m)']_vars

C26_Witness ==
  \E m, k \in Msgs :
    /\ calls[m].chatId # calls[k].chatId
    /\ calls[m].code # calls[k].code
    /\ calls[m].status = "copied"
    /\ calls[k].status = "copied"
    /\ Holds(metadata, m) /\ Holds(metadata, k)
    /\ Holds(metadataFile, m) /\ Holds(metadataFile, k)

\* C27: removeSeries of a collection that has neither a directory nor an
\* index entry changes nothing on disk or in the index, and after any
\* removeSeries a second one of the same collection changes nothing.
C27_RemoveIsIdempotent ==
  [][last'.op = "removeSeries"
       => /\ ~last'.ok
               => UNCHANGED <<dirs, files, metadata, metadataFile>>
          /\ removeSeries(CacheState', last'.series) = CacheState'
          /\ last'.series \notin dirs'
          /\ ~ObjHas(metadata', last'.series)]_vars

C27_Witness ==
  /\ last.op = "removeSeries"
  /\ ~last.ok
  /\ metadata # ObjEmpty
  /\ DOMAIN files # {}

\* The index lists collection sc before and after the step.
Resident(sc) == ObjHas(metadata, sc) /\ ObjHas(metadata', sc)

\* C28: a cacheVideo, getCachedVideo or cleanup that leaves a collection in
\* the index leaves every item of its entry listed and the file of every
\* item on disk.
C28_ItemsNeverShrink ==
  [][last'.op \in {"cacheVideo", "getCachedVideo", "cleanup"}
       => \A sc \in Series :
            Resident(sc)
              => /\ DOMAIN metadata.at[sc].videos
                      \subseteq DOMAIN metadata'.at[sc].videos
                 /\ \A v \in DOMAIN metadata.at[sc].videos :
                      <<sc, v>> \in DOMAIN files']_vars

C28_Witness ==
  /\ last.op = "cleanup"
  /\ ObjHas(metadata, ItemSeries)
  /\ Cardinality(DOMAIN metadata.at[ItemSeries].videos) = 2
  /\ metadata.at[ItemSeries].accessCount > 2
  /\ SeriesSize(metadata.at[ItemSeries]) = maxCacheSize
  /\ now > metadata.at[ItemSeries].createdAt

\* C29: the first successful cacheVideo into a collection without entry sets
\* createdAt to the time of the call, and no later cacheVideo or
\* getCachedVideo changes the createdAt of an entry, so none of them delays
\* the moment the entry becomes too old.
C29_CreatedAtSetOnce ==
  [][last'.op \in {"cacheVideo", "getCachedVideo"}
       => /\ \A sc \in Series :
               Resident(sc)
                 => /\ metadata'.at[sc].createdAt = metadata.at[sc].createdAt
                    /\ TooOld(metadata.at[sc], now)
                         => TooOld(metadata'.at[sc], now')
          /\ (last'.op = "cacheVideo" /\ last'.ok
                /\ ~ObjHas(metadata, last'.series))
               => metadata'.at[last'.series].createdAt = now]_vars

C29_Witness ==
  /\ last.op = "cacheVideo"
  /\ last.ok
  /\ last.had # 0
  /\ ObjHas(metadata, last.series)
  /\ metadata.at[last.series].videos[last.video].cachedAt = now
  /\ metadata.at[last.series].createdAt < now
  /\ TooOld(metadata.at[last.series], now)

\* C30: every entry of the index has lastAccessAt at or after createdAt.
C30_AccessNotBeforeCreation ==
  \A sc \in DOMAIN metadata.at :
    metadata.at[sc].lastAccessAt >= metadata.at[sc].createdAt

C30_Witness ==
  \E sc \in DOMAIN metadata.at :
    /\ metadata.at[sc].lastAccessAt > metadata.at[sc].createdAt
    /\ last.op = "getCachedVideo"
    /\ last.ok
    /\ last.series = sc

\* The "All videos sent" messages that invocation m has sent.
DoneLog(m) == SelectSeq(calls[m].log, LAMBDA e : e[1] = "Done")

\* C31: an invocation sends "All videos sent" at most once, and when it does,
\* a video or a skip notice has gone out for every item of the list up to
\* the last one, the loop is over, and the chat's entry is still in
\* activeRequests with no delete executed; the delete follows the send.
C31_DoneAfterLastItemOnce ==
  [][\A m \in Msgs :
       /\ Len(DoneLog(m)') <= 1
       /\ Len(DoneLog(m)') > Len(DoneLog(m))
            => /\ calls[m].pc = "replyDone"
               /\ Ids(ItemLog(m)) = calls[m].videos
               /\ calls[m].chatId \in DOMAIN activeRequests
               /\ calls[m].deletes = 0
               /\ calls'[m].deletes = 1
               /\ calls[m].chatId \notin DOMAIN activeRequests']_vars

C31_Witness ==
  \E m \in Msgs :
    /\ Len(DoneLog(m)) = 1
    /\ calls[m].log[Len(calls[m].log)][1] = "Done"
    /\ Len(calls[m].videos) = 2
    /\ ItemLog(m) = <<<<"Video", 1>>, <<"Skip", 2>>>>
    /\ calls[m].chatId \notin DOMAIN activeRequests

\* A file of this length holds the whole of a source artifact.
Complete(size) == size \in Sizes

\* C32 as stated: in every state, also after the process was stopped inside
\* a cacheVideo and a new instance was constructed, every item that isCached
\* and getCachedVideo report as present has its complete content on disk.
C32_PresentMeansComplete ==
  \A sc \in Series, v \in ItemVideoIds :
    isCached(CacheState, sc, v) => Complete(files[<<sc, v>>])

\* The step is a getCachedVideo that returned a path or a cacheVideo that
\* returned one, for collection sc.
Touched(sc) ==
  /\ last'.op \in {"cacheVideo", "getCachedVideo"}
  /\ last'.ok
  /\ last'.series = sc

\* C33: while a collection keeps its index entry, no step lowers its
\* accessCount or its lastAccessAt, a getCachedVideo hit and a successful
\* cacheVideo on it raise accessCount by exactly one, and the cacheVideo that
\* creates the entry leaves accessCount at one.
C33_TouchesCountOnce ==
  [][\A sc \in Series :
       /\ Resident(sc)
            => /\ metadata'.at[sc].accessCount >= metadata.at[sc].accessCount
               /\ metadata'.at[sc].lastAccessAt >= metadata.at[sc].lastAccessAt
               /\ Touched(sc)
                    => metadata'.at[sc].accessCount
                         = metadata.at[sc].accessCount + 1
       /\ (Touched(sc) /\ last'.op = "cacheVideo" /\ ~ObjHas(metadata, sc))
            => metadata'.at[sc].accessCount = 1]_vars

C33_Witness ==
  /\ last.op = "getCachedVideo"
  /\ last.ok
  /\ ObjHas(metadata, last.series)
  /\ metadata.at[last.series].accessCount = 2
  /\ metadata.at[last.series].lastAccessAt = now
  /\ metadata.at[last.series].createdAt < now

\* C34: an invocation whose isSeriesCached answered true finds the file of
\* every item of its list in the cache for as long as it runs, whatever the
\* other invocations do in between: each getCachedVideo is a hit, it never
\* waits for downloadVideo and never calls cacheVideo.
C34_CachedSeriesNeedsNoFetch ==
  \A m \in Msgs :
    calls[m].isCached
      => /\ \A k \in 1..Len(calls[m].videos) :
              isCached(CacheState, calls[m].code, calls[m].videos[k])
         /\ calls[m].pc # "downloadVideo"
         /\ "cacheVideo" \notin calls[m].cacheOps
         /\ calls[m].status \notin
              {"miss", "fetchFailed", "copied", "copyFailed", "loadFailed"}

C34_Witness ==
  \E m, k \in Msgs :
    /\ calls[m].isCached
    /\ calls[m].status = "cached"
    /\ calls[m].i = 2
    /\ calls[m].log[Len(calls[m].log)] = <<"Video", 1>>
    /\ calls[k].chatId # calls[m].chatId
    /\ calls[k].status = "copied"
    /\ calls[k].pc = "sendMessage"

\* The call of this step asks for the item of the call before it.
SameItem ==
  /\ last'.series = last.series
  /\ last'.video = last.video

\* C35: when cacheVideo returns a path, the item's file is on disk with the
\* size the index records, so isCached holds, and a getCachedVideo for the
\* item that comes next returns a path; this also when the collection alone
\* is larger than maxCacheSize.
C35_ReadBackAfterInsert ==
  [][/\ (last'.op = "cacheVideo" /\ last'.ok)
          => /\ <<last'.series, last'.video>> \in DOMAIN files'
             /\ files'[<<last'.series, last'.video>>]
                  = metadata'.at[last'.series].videos[last'.video].size
     /\ (last.op = "cacheVideo" /\ last.ok
           /\ last'.op = "getCachedVideo" /\ SameItem)
          => last'.ok
     /\ (last.op = "cacheVideo" /\ last.ok
           /\ last'.op = "isSeriesCached" /\ last'.ids = {last.video})
          => last'.ok]_vars

C35_Witness ==
  /\ last.op = "getCachedVideo"
  /\ last.ok
  /\ ObjHas(metadata, last.series)
  /\ SeriesSize(metadata.at[last.series]) > maxCacheSize
  /\ metadata.at[last.series].videos[last.video].size = 6
  /\ metadata.at[last.series].accessCount = 3

\* The step ends the loop of invocation m: cleanTempDirectory runs in it.
CleansTemp(m) ==
  calls[m].pc # "updateUserRequest" /\ calls'[m].pc = "updateUserRequest"

\* Invocation k has fetched the file of its current item into ./temp and
\* awaits its delivery.
AwaitsDelivery(k) ==
  /\ calls[k].pc = "sendMessage"
  /\ ~calls[k].cachedPath
  /\ calls[k].filePath \in DOMAIN temp

\* C36 as stated: the cleanTempDirectory at the end of one chat's sequence
\* leaves in place the fetched file of another chat's sequence whose
\* delivery has not finished.
C36_CleanupSparesOthersArtifacts ==
  [][\A m, k \in Msgs :
       (/\ CleansTemp(m)
        /\ calls[k].chatId # calls[m].chatId
        /\ AwaitsDelivery(k))
         => calls[k].filePath \in DOMAIN temp']_vars

C38_CleanupWithinLimitsIsNoOp ==
  [][(/\ last'.op = "cleanup"
      /\ \A sc \in DOMAIN metadata.at :
           now - metadata.at[sc].createdAt <= maxAge
      /\ TotalOf(metadata) <= maxCacheSize)
       => UNCHANGED <<dirs, files, metadata, metadataFile>>]_vars

C38_Witness ==
  /\ last.op = "cleanup"
  /\ last.aged = EmptyMap
  /\ last.trimmed = EmptyMap
  /\ Len(metadata.keys) = 2
  /\ 10 * TotalOf(metadata) > 8 * maxCacheSize
  /\ TotalOf(metadata) <= maxCacheSize
  /\ now > 0

====
